---------------------------- MODULE Spec2Model ----------------------------
(***************************************************************************)
(* HeaderTransformer of "ccr config/plugins/header.js": API-key rotation   *)
(* and HMAC request signing.  JavaScript values are records tagged by      *)
(* their type; strings are sequences of one-character strings.             *)
(***************************************************************************)
EXTENDS Integers, Sequences, FiniteSets, TLC

VARIABLES
    name,      \* this.name (line 4)
    keyIndex,  \* this.keyIndex, the rotation cursor (line 5)
    apiKeys,   \* this.apiKeys, the credential pool (line 6)
    logger,    \* this.logger, attached by the host (line 22)
    last,      \* the latest call of transformRequestIn: arguments, locals, outcome
    hist,      \* per call, in order: the cursor and credential read at line 14
    sigCall,   \* the latest direct call of generateSignature
    session,   \* the latest direct call of generateSessionId
    pc,        \* per caller: the statement its started call is at
    loc,       \* per caller: the arguments and locals of its started call
    running    \* the caller whose call holds the thread, 0 when none does

vars == <<name, keyIndex, apiKeys, logger, last, hist, sigCall, session, pc, loc, running>>

(***************************************************************************)
(* Bounds of the model.                                                    *)
(***************************************************************************)
MaxCalls == 5
MaxKeyLen == 4
MaxSigKeyLen == 2
NumCallers == 2

(***************************************************************************)
(* JavaScript values.                                                      *)
(***************************************************************************)
Undefined == [t |-> "undefined"]
Null == [t |-> "null"]
NaN == [t |-> "NaN"]
Num(n) == [t |-> "number", v |-> n]
Str(s) == [t |-> "string", s |-> s]

\* ToBoolean: undefined, null, NaN, 0 and "" are falsy.
Truthy(x) ==
    CASE x.t = "string" -> Len(x.s) > 0
      [] x.t = "number" -> x.v # 0
      [] OTHER -> FALSE

\* a + 1 on numbers: NaN is absorbing.
JsAdd(a, b) == IF a.t = "NaN" THEN NaN ELSE Num(a.v + b)

\* a % n on numbers: NaN when a is NaN or n is 0.
JsMod(a, n) == IF a.t = "NaN" \/ n = 0 THEN NaN ELSE Num(a.v % n)

\* arr[i]: undefined when i is NaN or outside the array.
JsIndex(arr, i) ==
    IF i.t = "number" /\ i.v >= 0 /\ i.v < Len(arr) THEN Str(arr[i.v + 1])
    ELSE Undefined

(***************************************************************************)
(* String.prototype.split(','), trim() and Array.prototype.filter.         *)
(***************************************************************************)
WhiteSpace == {" ", "\t", "\n", "\r"}

\* Scans s left to right; cur is the segment being collected.
RECURSIVE SplitFrom(_, _, _)
SplitFrom(s, i, cur) ==
    IF i > Len(s) THEN <<cur>>
    ELSE IF s[i] = "," THEN <<cur>> \o SplitFrom(s, i + 1, <<>>)
    ELSE SplitFrom(s, i + 1, Append(cur, s[i]))

Split(s) == SplitFrom(s, 1, <<>>)

RECURSIVE TrimStart(_)
TrimStart(s) ==
    IF Len(s) > 0 /\ Head(s) \in WhiteSpace THEN TrimStart(Tail(s)) ELSE s

RECURSIVE TrimEnd(_)
TrimEnd(s) ==
    IF Len(s) > 0 /\ s[Len(s)] \in WhiteSpace
    THEN TrimEnd(SubSeq(s, 1, Len(s) - 1)) ELSE s

Trim(s) == TrimEnd(TrimStart(s))

RECURSIVE MapTrim(_)
MapTrim(segs) ==
    IF segs = <<>> THEN <<>> ELSE <<Trim(Head(segs))>> \o MapTrim(Tail(segs))

\* filter(k => k): keeps the truthy (non-empty) strings.
RECURSIVE FilterTruthy(_)
FilterTruthy(segs) ==
    IF segs = <<>> THEN <<>>
    ELSE IF Truthy(Str(Head(segs)))
         THEN <<Head(segs)>> \o FilterTruthy(Tail(segs))
         ELSE FilterTruthy(Tail(segs))

ParseKeysNoFilter(s) == MapTrim(Split(s))

\* provider.apiKey.split(',').map(k => k.trim()).filter(k => k)
ParseKeys(s) == FilterTruthy(MapTrim(Split(s)))

\* substring(0, n)
Substring(s, n) == SubSeq(s, 1, IF Len(s) < n THEN Len(s) ELSE n)

(***************************************************************************)
(* Number.prototype.toString(): decimal digits of a natural number.        *)
(***************************************************************************)
Digits == <<"0", "1", "2", "3", "4", "5", "6", "7", "8", "9">>

RECURSIVE ToDecimal(_)
ToDecimal(n) ==
    IF n < 10 THEN <<Digits[n + 1]>>
    ELSE Append(ToDecimal(n \div 10), Digits[(n % 10) + 1])

(***************************************************************************)
(* generateSessionId.                                                      *)
(***************************************************************************)
HexBase == 16
HexDigits == <<"0", "1", "2", "3", "4", "5", "6", "7",
               "8", "9", "a", "b", "c", "d", "e", "f">>

SessionTemplate ==
    <<"x", "x", "x", "x", "x", "x", "x", "x", "-",
      "x", "x", "x", "x", "-",
      "4", "x", "x", "x", "-",
      "y", "x", "x", "x", "-",
      "x", "x", "x", "x", "x", "x", "x", "x", "x", "x", "x", "x">>

RECURSIVE BitAnd(_, _)
BitAnd(a, b) ==
    IF a = 0 \/ b = 0 THEN 0
    ELSE 2 * BitAnd(a \div 2, b \div 2) + (IF a % 2 = 1 /\ b % 2 = 1 THEN 1 ELSE 0)

RECURSIVE BitOr(_, _)
BitOr(a, b) ==
    IF a = 0 THEN b
    ELSE IF b = 0 THEN a
    ELSE 2 * BitOr(a \div 2, b \div 2) + (IF a % 2 = 1 \/ b % 2 = 1 THEN 1 ELSE 0)

ReplaceCharUnmasked(c, r) == HexDigits[r + 1]

\* The replacer callback: c is "x" or "y", r is Math.random() * 16 | 0.
ReplaceChar(c, r) ==
    LET v == IF c = "x" THEN r ELSE BitOr(BitAnd(r, 3), 8)
    IN  HexDigits[v + 1]

\* replace(/[xy]/g, ...): rnd is the sequence of values Math.random() * 16 | 0
\* takes, one per matched character, in order.
RECURSIVE ReplaceFrom(_, _, _)
ReplaceFrom(tpl, i, rnd) ==
    IF i > Len(tpl) THEN <<>>
    ELSE IF tpl[i] \in {"x", "y"}
         THEN <<ReplaceChar(tpl[i], Head(rnd))>> \o ReplaceFrom(tpl, i + 1, Tail(rnd))
         ELSE <<tpl[i]>> \o ReplaceFrom(tpl, i + 1, rnd)

generateSessionId(rnd) == ReplaceFrom(SessionTemplate, 1, rnd)

RandomDraws == Cardinality({i \in 1..Len(SessionTemplate) : SessionTemplate[i] \in {"x", "y"}})

\* The outcomes of the random source the model draws from.
RandomSources ==
    { [i \in 1..RandomDraws |-> (seed + i * step) % HexBase] :
        seed \in {0, 11}, step \in {5} }

(***************************************************************************)
(* generateSignature.  The digest of crypto.createHmac('sha256', key)      *)
(* .update(message).digest('hex') is kept symbolic: it is determined by,   *)
(* and determines, the key and the message.                                *)
(***************************************************************************)
HmacSha256Hex(key, message) == [t |-> "hmac", key |-> key, message |-> message]

SignedMessageReordered(userAgent, sessionId, timestamp) ==
    sessionId \o <<":">> \o userAgent \o <<":">> \o ToDecimal(timestamp)

\* `${userAgent}:${sessionId}:${timestamp}`
SignedMessage(userAgent, sessionId, timestamp) ==
    userAgent \o <<":">> \o sessionId \o <<":">> \o ToDecimal(timestamp)

generateSignatureNoGuard(userAgent, sessionId, timestamp, apiKey) ==
    HmacSha256Hex(IF apiKey.t = "string" THEN apiKey.s ELSE <<>>,
                  SignedMessage(userAgent, sessionId, timestamp))

generateSignature(userAgent, sessionId, timestamp, apiKey) ==
    IF ~Truthy(apiKey) THEN Null
    ELSE HmacSha256Hex(apiKey.s, SignedMessage(userAgent, sessionId, timestamp))

(***************************************************************************)
(* Inputs of the model.                                                    *)
(***************************************************************************)
Requests == {"r1", "r2"}

\* Values of provider.apiKey: absent, "", " , ", "a", "a, b" and the
\* string " k1 , k2 ,,k3 ".
ProviderKeys ==
    { Undefined,
      Str(<<>>),
      Str(<<" ", ",", " ">>),
      Str(<<"a">>),
      Str(<<"a", ",", " ", "b">>),
      Str(<<" ", "k", "1", " ", ",", " ", "k", "2", " ", ",", ",", "k", "3", " ">>) }

Providers == { [apiKey |-> k] : k \in ProviderKeys }

\* Values of Date.now().
Timestamps == {9, 10}

\* this.logger: absent, a logger whose debug returns, a logger whose debug
\* throws, a logger object without a debug method.
WellBehavedLoggers == {"absent", "ok"}
Loggers == {"absent", "ok", "throws", "nodebug"}

Callers == 1..NumCallers

UserAgent == <<"i", "F", "l", "o", "w", "-", "C", "l", "i">>

NoCall == [t |-> "none"]

(***************************************************************************)
(* The statements of transformRequestIn.                                   *)
(***************************************************************************)
LazyInitFirstCallOnly(pool, provider) ==
    IF hist = <<>> /\ Len(pool) = 0 /\ Truthy(provider.apiKey)
    THEN ParseKeys(provider.apiKey.s)
    ELSE pool

LazyInitAlways(pool, provider) ==
    IF Truthy(provider.apiKey) THEN ParseKeys(provider.apiKey.s) ELSE pool

\* if (this.apiKeys.length === 0 && provider.apiKey) this.apiKeys = ...
LazyInit(pool, provider) ==
    IF Len(pool) = 0 /\ Truthy(provider.apiKey)
    THEN ParseKeys(provider.apiKey.s)
    ELSE pool

\* const currentApiKey = this.apiKeys[this.keyIndex]
SelectKey(pool, index) == JsIndex(pool, index)

\* this.keyIndex = (this.keyIndex + 1) % this.apiKeys.length
AdvanceCursor(index, pool) == JsMod(JsAdd(index, 1), Len(pool))

\* currentApiKey?.substring(0, 8)
KeyPrefix(key) ==
    IF key.t \in {"undefined", "null"} THEN Undefined
    ELSE Str(Substring(key.s, 8))

\* this.logger?.debug(`...${this.keyIndex}...${currentApiKey?.substring(0, 8)}...`)
\* The message is built only when this.logger is present.
LoggerDebug(lg, index, key) ==
    CASE lg = "absent"  -> [threw |-> FALSE, trace |-> NoCall]
      [] lg = "ok"      -> [threw |-> FALSE,
                            trace |-> [index |-> index, keyPrefix |-> KeyPrefix(key)]]
      [] lg = "throws"  -> [threw |-> TRUE,
                            trace |-> [index |-> index, keyPrefix |-> KeyPrefix(key)]]
      [] lg = "nodebug" -> [threw |-> TRUE, trace |-> NoCall]

HeadersWithoutConversationId(userAgent, sessionId, timestamp, signature) ==
    ("user-agent" :> Str(userAgent)) @@
    ("session-id" :> Str(sessionId)) @@
    ("x-iflow-timestamp" :> Str(ToDecimal(timestamp))) @@
    ("x-iflow-signature" :> signature)

\* lines 26-32
Headers(userAgent, sessionId, timestamp, signature) ==
    ("user-agent" :> Str(userAgent)) @@
    ("session-id" :> Str(sessionId)) @@
    ("conversation-id" :> Str(<<>>)) @@
    ("x-iflow-timestamp" :> Str(ToDecimal(timestamp))) @@
    ("x-iflow-signature" :> signature)

RequestAfterMutated(request) == "mutated"

\* The request object after the call: the body never writes to it.
RequestAfter(request) == request

\* The provider object after the call: the body only reads provider.apiKey.
ProviderAfter(provider) == provider

\* Lines 17-35: sign, log, build the result.  pre and key are the cursor
\* and credential read at line 14, index the cursor written at line 15.
CallRecord(request, provider, now, rnd, pre, key, index) ==
    LET sessionId == generateSessionId(rnd)
        signature == generateSignature(UserAgent, sessionId, now, key)
        log == LoggerDebug(logger, index, key)
    IN  [ request |-> request,
          provider |-> provider,
          requestAfter |-> RequestAfter(request),
          providerAfter |-> ProviderAfter(provider),
          pre |-> pre,
          key |-> key,
          trace |-> log.trace,
          outcome |-> IF log.threw THEN "threw" ELSE "returned",
          result |-> IF log.threw THEN NoCall
                     ELSE [ body |-> RequestAfter(request),
                            config |-> [ headers |->
                                Headers(UserAgent, sessionId, now, signature) ] ] ]

\* One selection: the cursor read, the credential read, the pool size then.
Selection(pool, index) ==
    [pre |-> index, key |-> SelectKey(pool, index), n |-> Len(pool)]

(***************************************************************************)
(* transformRequestIn as one step: the body has no await, so a call runs   *)
(* from its first statement to its return without interruption.            *)
(***************************************************************************)
TransformRequestIn(request, provider, now, rnd) ==
    LET pool == LazyInit(apiKeys, provider)
        sel == Selection(pool, keyIndex)
        index == AdvanceCursor(keyIndex, pool)
    IN  /\ Len(hist) < MaxCalls
        /\ running = 0
        /\ apiKeys' = pool
        /\ keyIndex' = index
        /\ hist' = Append(hist, sel)
        /\ last' = CallRecord(request, provider, now, rnd, sel.pre, sel.key, index)
        /\ UNCHANGED <<name, logger, sigCall, session, pc, loc, running>>

Call ==
    \E request \in Requests, provider \in Providers,
       now \in Timestamps, rnd \in RandomSources :
        TransformRequestIn(request, provider, now, rnd)

(***************************************************************************)
(* Construction: the class fields, and the logger the host attaches.       *)
(***************************************************************************)
Fresh ==
    /\ name = "header"
    /\ keyIndex = Num(0)
    /\ apiKeys = <<>>
    /\ last = NoCall
    /\ hist = <<>>
    /\ sigCall = NoCall
    /\ session = NoCall
    /\ pc = [c \in Callers |-> "idle"]
    /\ loc = [c \in Callers |-> NoCall]
    /\ running = 0

Init == Fresh /\ logger \in WellBehavedLoggers

Next == Call

Spec == Init /\ [][Next]_vars

\* Any logger, also one that throws or has no debug method.
InitLogger == Fresh /\ logger \in Loggers

SpecLogger == InitLogger /\ [][Next]_vars

(***************************************************************************)
(* The first call of a fresh transformer, for every provider.apiKey string *)
(* up to MaxKeyLen characters (and the documented example).                *)
(***************************************************************************)
KeyChars == {"a", "b", ",", " ", "\t"}

KeyStrings(n) == UNION { [1..k -> KeyChars] : k \in 0..n }

ExampleKeyString ==
    <<" ", "k", "1", " ", ",", " ", "k", "2", " ", ",", ",", "k", "3", " ">>

FirstCall ==
    /\ hist = <<>>
    /\ \E s \in KeyStrings(MaxKeyLen) \cup {ExampleKeyString},
          request \in Requests, now \in Timestamps, rnd \in RandomSources :
           TransformRequestIn(request, [apiKey |-> Str(s)], now, rnd)

NextParse == FirstCall

SpecParse == Init /\ [][NextParse]_vars

(***************************************************************************)
(* generateSignature called on its own.                                    *)
(***************************************************************************)
SigKeys == {Undefined, Null} \cup { Str(s) : s \in KeyStrings(MaxSigKeyLen) }

SignCall ==
    \E rnd \in RandomSources, now \in Timestamps, apiKey \in SigKeys :
        LET sessionId == generateSessionId(rnd)
        IN  /\ sigCall' = [ userAgent |-> UserAgent,
                            sessionId |-> sessionId,
                            timestamp |-> now,
                            apiKey |-> apiKey,
                            result |-> generateSignature(UserAgent, sessionId, now, apiKey) ]
            /\ UNCHANGED <<name, session, keyIndex, apiKeys, logger, last, hist, pc, loc, running>>

NextSig == SignCall

SpecSig == Init /\ [][NextSig]_vars

(***************************************************************************)
(* Calls started concurrently on one instance.  A call is the statements   *)
(* of the body in order; `running` is the call that holds the JavaScript   *)
(* thread (0: none).  A started call keeps the thread until it awaits or   *)
(* returns; the body of transformRequestIn contains no await.              *)
(***************************************************************************)
\* A body that awaited between lines 14 and 15; ReadUpdateAtomic fails under it.
AwaitsBeforeAdvance == {"advance"}

\* The statements before which the body awaits.
Awaits == {}

Thread(c, nextpc) == IF nextpc \in Awaits \cup {"idle"} THEN 0 ELSE c

MayRun(c) == running \in {0, c}

Started == Len(hist) + Cardinality({c \in Callers : pc[c] \in {"init", "select"}})

Begin(c) ==
    /\ pc[c] = "idle"
    /\ running = 0
    /\ Started < MaxCalls
    /\ \E request \in Requests, provider \in Providers,
          now \in Timestamps, rnd \in RandomSources :
           loc' = [loc EXCEPT ![c] = [ request |-> request, provider |-> provider,
                                       now |-> now, rnd |-> rnd,
                                       pre |-> Undefined, key |-> Undefined ]]
    /\ pc' = [pc EXCEPT ![c] = "init"]
    /\ running' = Thread(c, "init")
    /\ UNCHANGED <<name, keyIndex, apiKeys, logger, last, hist, sigCall, session>>

\* lines 10-12
StepInit(c) ==
    /\ pc[c] = "init"
    /\ MayRun(c)
    /\ apiKeys' = LazyInit(apiKeys, loc[c].provider)
    /\ pc' = [pc EXCEPT ![c] = "select"]
    /\ running' = Thread(c, "select")
    /\ UNCHANGED <<name, keyIndex, logger, last, hist, sigCall, session, loc>>

\* line 14
StepSelect(c) ==
    LET sel == Selection(apiKeys, keyIndex)
    IN  /\ pc[c] = "select"
        /\ MayRun(c)
        /\ loc' = [loc EXCEPT ![c].pre = sel.pre, ![c].key = sel.key]
        /\ hist' = Append(hist, sel)
        /\ pc' = [pc EXCEPT ![c] = "advance"]
        /\ running' = Thread(c, "advance")
        /\ UNCHANGED <<name, keyIndex, apiKeys, logger, last, sigCall, session>>

\* line 15
StepAdvance(c) ==
    /\ pc[c] = "advance"
    /\ MayRun(c)
    /\ keyIndex' = AdvanceCursor(keyIndex, apiKeys)
    /\ pc' = [pc EXCEPT ![c] = "finish"]
    /\ running' = Thread(c, "finish")
    /\ UNCHANGED <<name, apiKeys, logger, last, hist, sigCall, session, loc>>

\* lines 17-35
StepFinish(c) ==
    /\ pc[c] = "finish"
    /\ MayRun(c)
    /\ last' = CallRecord(loc[c].request, loc[c].provider, loc[c].now, loc[c].rnd,
                          loc[c].pre, loc[c].key, keyIndex)
    /\ loc' = [loc EXCEPT ![c] = NoCall]
    /\ pc' = [pc EXCEPT ![c] = "idle"]
    /\ running' = Thread(c, "idle")
    /\ UNCHANGED <<name, keyIndex, apiKeys, logger, hist, sigCall, session>>

NextConc ==
    \E c \in Callers :
        \/ Begin(c)
        \/ StepInit(c)
        \/ StepSelect(c)
        \/ StepAdvance(c)
        \/ StepFinish(c)

SpecConc == Init /\ [][NextConc]_vars

(***************************************************************************)
(* Properties.                                                             *)
(***************************************************************************)
Called == Len(hist) > 0

\* The selection of the most recent call.
LastSel == hist[Len(hist)]

IsCallStep == Len(hist') = Len(hist) + 1

Signature(result) == result.config.headers["x-iflow-signature"]

\* C1: round-robin.  For a pool of N >= 1 keys, any N consecutive calls
\* select each key of the pool exactly once, in configured order (each call
\* selects the key at the pre-advance cursor position), and the call after
\* them selects the first of them again.
C1_RoundRobin ==
    \A i \in 1..Len(hist) :
        LET N == hist[i].n
        IN  (N >= 1 /\ i + N <= Len(hist)) =>
                \E p \in 0..(N - 1) :
                    \A d \in 0..N :
                        /\ hist[i + d].pre = Num((p + d) % N)
                        /\ hist[i + d].key = Str(apiKeys[((p + d) % N) + 1])

\* C2: cursor invariant.  In every reachable state keyIndex is an integer
\* with 0 <= keyIndex < max(1, apiKeys.length); a call made while the pool
\* is empty leaves the cursor at 0.
C2_CursorInRange ==
    /\ keyIndex.t = "number"
    /\ keyIndex.v >= 0
    /\ keyIndex.v < (IF Len(apiKeys) > 1 THEN Len(apiKeys) ELSE 1)
    /\ (Called /\ LastSel.n = 0) => keyIndex = Num(0)

C4_PoolStable == [][Len(apiKeys) > 0 => apiKeys' = apiKeys]_vars

\* The pool was populated before the last call, and the last call carried a
\* provider.apiKey that parses to a different, non-empty key list.
C4_Witness ==
    /\ Len(hist) >= 2
    /\ hist[Len(hist) - 1].n > 0
    /\ Truthy(last.provider.apiKey)
    /\ ParseKeys(last.provider.apiKey.s) # <<>>
    /\ ParseKeys(last.provider.apiKey.s) # apiKeys

\* C5 as stated: the pool is parsed on the first invocation only; after the
\* first invocation no invocation populates the pool.
C5_FirstInvocationOnly == [][Called => apiKeys' = apiKeys]_vars

\* C5 amended: every invocation made while the pool is empty parses a
\* non-empty provider.apiKey into the pool, also when it is not the first
\* invocation; an invocation made while the pool is non-empty, or with an
\* absent or empty provider.apiKey, leaves the pool as it is.
C5_InitWhileEmpty ==
    [][IsCallStep =>
         apiKeys' = IF Len(apiKeys) = 0 /\ Truthy(last'.provider.apiKey)
                    THEN ParseKeys(last'.provider.apiKey.s)
                    ELSE apiKeys]_vars

\* The first invocation left the pool empty and a later one populated it.
C5_Witness ==
    /\ Len(hist) >= 2
    /\ hist[1].n = 0
    /\ Len(apiKeys) > 0

\* The cursor read by each call is the cursor the call before it wrote:
\* no call reads keyIndex between another call's read and its update.
ReadUpdateAtomic ==
    /\ \A i \in 1..(Len(hist) - 1) :
           hist[i + 1].pre = AdvanceCursor(hist[i].pre, SubSeq(apiKeys, 1, hist[i].n))
    /\ \A c, d \in Callers :
           (c # d /\ pc[c] = "advance") => pc[d] \in {"idle", "init", "select"}

\* C6: concurrency.  For a pool of size N > 1, under any interleaving of
\* concurrently started calls, no two calls observe the same pre-advance
\* cursor value without N - 1 other calls between them, and the calls
\* select what sequential calls select: each key in turn, none skipped.
C6_NoDoubleSelection ==
    /\ \A i, j \in 1..Len(hist) :
           (hist[i].n > 1 /\ i < j /\ j - i < hist[i].n) =>
               hist[i].pre # hist[j].pre
    /\ \A i \in 1..Len(hist) :
           hist[i].n > 1 => hist[i].key \in { Str(apiKeys[k]) : k \in 1..Len(apiKeys) }

\* C7: generateSignature returns null only for a missing key (undefined or
\* null); for the empty string it returns the HMAC computed with that key.
C7_EmptyKeySigned ==
    sigCall # NoCall =>
        /\ (sigCall.result = Null) <=> (sigCall.apiKey \in {Undefined, Null})
        /\ sigCall.apiKey = Str(<<>>) =>
               sigCall.result =
                   HmacSha256Hex(<<>>, SignedMessage(sigCall.userAgent, sigCall.sessionId,
                                                     sigCall.timestamp))

\* C8: logger isolation.  Every call returns its result: with no logger,
\* with a logger whose debug throws, with a logger without a debug method.
C8_LoggerIsolated == Called => last.outcome = "returned"

(***************************************************************************)
(* The key list of a string, by positions: the segments between            *)
(* consecutive commas, each cut to its first..last non-whitespace          *)
(* character, the empty ones left out.                                     *)
(***************************************************************************)
CommaPositions(s) == {i \in 1..Len(s) : s[i] = ","}

Boundary(s, k) ==
    IF k = 0 THEN 0
    ELSE IF k > Cardinality(CommaPositions(s)) THEN Len(s) + 1
    ELSE CHOOSE p \in CommaPositions(s) :
             Cardinality({q \in CommaPositions(s) : q <= p}) = k

Segment(s, k) == SubSeq(s, Boundary(s, k - 1) + 1, Boundary(s, k) - 1)

Stripped(seg) ==
    LET nw == {i \in 1..Len(seg) : seg[i] \notin WhiteSpace}
    IN  IF nw = {} THEN <<>>
        ELSE SubSeq(seg, CHOOSE i \in nw : \A j \in nw : i <= j,
                         CHOOSE i \in nw : \A j \in nw : i >= j)

NonEmpty(seg) == seg # <<>>

ExpectedPool(s) ==
    SelectSeq([k \in 1..(Cardinality(CommaPositions(s)) + 1) |-> Stripped(Segment(s, k))],
              NonEmpty)

\* C9: key-list parsing.  The pool produced from provider.apiKey is, in
\* order, its comma-separated segments, trimmed, without the segments that
\* are empty after trimming: no pool entry is empty or has leading or
\* trailing whitespace, and " k1 , k2 ,,k3 " yields ["k1","k2","k3"].
C9_KeyListParsing ==
    Called =>
        /\ apiKeys = ExpectedPool(last.provider.apiKey.s)
        /\ \A i \in 1..Len(apiKeys) :
               /\ apiKeys[i] # <<>>
               /\ Head(apiKeys[i]) \notin WhiteSpace
               /\ apiKeys[i][Len(apiKeys[i])] \notin WhiteSpace
               /\ "," \notin {apiKeys[i][j] : j \in 1..Len(apiKeys[i])}
        /\ last.provider.apiKey.s = ExampleKeyString =>
               apiKeys = << <<"k", "1">>, <<"k", "2">>, <<"k", "3">> >>

\* The documented example has been parsed into three keys.
C9_Witness ==
    /\ Called
    /\ last.provider.apiKey.s = ExampleKeyString
    /\ Len(apiKeys) = 3

\* C10 as stated: a call returns the given request as body, mutates neither
\* the request nor the provider, and of the transformer's state changes
\* only the rotation cursor: pool, name and logger are unchanged.
C10_OnlyCursorChanges ==
    [][IsCallStep =>
         /\ last'.requestAfter = last'.request
         /\ last'.providerAfter = last'.provider
         /\ last'.outcome = "returned" => last'.result.body = last'.request
         /\ apiKeys' = apiKeys
         /\ name' = name
         /\ logger' = logger]_vars

\* C10 amended: a call mutates neither the request nor the provider and
\* any result it returns has the given request as body; of the
\* transformer's state it changes the rotation cursor and, only when made
\* with an empty pool and a non-empty provider.apiKey, the credential pool;
\* name and logger are unchanged.
C10_Frame ==
    [][IsCallStep =>
         /\ last'.requestAfter = last'.request
         /\ last'.providerAfter = last'.provider
         /\ last'.outcome = "returned" => last'.result.body = last'.request
         /\ apiKeys' # apiKeys => (Len(apiKeys) = 0 /\ Truthy(last'.provider.apiKey))
         /\ name' = name
         /\ logger' = logger]_vars

\* A call that returned and populated the pool, after a call on an empty pool.
C10_Witness ==
    /\ Len(hist) >= 2
    /\ hist[Len(hist) - 1].n = 0
    /\ LastSel.n > 0
    /\ last.outcome = "returned"
    /\ last.result.body = last.request

HeadersOf(result) == result.config.headers

Returned == Called /\ last.outcome = "returned"

\* C11: the signature binds the emitted headers.  Whenever a call selects a
\* key and returns, its x-iflow-signature is HMAC-SHA256 keyed by the key at
\* the pre-advance cursor position over "{user-agent}:{session-id}:
\* {x-iflow-timestamp}", taken from the header values the same call returns;
\* so equal user agent, session id, timestamp and key give equal signatures.
C11_SignatureBindsHeaders ==
    (Returned /\ last.key # Undefined) =>
        /\ last.key = JsIndex(apiKeys, last.pre)
        /\ Signature(last.result) =
               HmacSha256Hex(last.key.s,
                             HeadersOf(last.result)["user-agent"].s \o <<":">> \o
                             HeadersOf(last.result)["session-id"].s \o <<":">> \o
                             HeadersOf(last.result)["x-iflow-timestamp"].s)

\* A returned call that selected the second key of a pool, with a
\* timestamp of two digits.
C11_Witness ==
    /\ Returned
    /\ last.pre = Num(1)
    /\ last.key = Str(<<"b">>)
    /\ HeadersOf(last.result)["x-iflow-timestamp"] = Str(<<"1", "0">>)

HeaderNames ==
    {"user-agent", "session-id", "conversation-id", "x-iflow-timestamp", "x-iflow-signature"}

\* A string value: a string, or the hex digest of an HMAC.
IsStringValue(v) == v.t \in {"string", "hmac"}

ResultShape(result) ==
    /\ DOMAIN result = {"body", "config"}
    /\ DOMAIN result.config = {"headers"}
    /\ DOMAIN HeadersOf(result) = HeaderNames
    /\ HeadersOf(result)["user-agent"] = Str(UserAgent)
    /\ HeadersOf(result)["conversation-id"] = Str(<<>>)

\* C12 as stated: every result has exactly the fields body and
\* config.headers, and config.headers has exactly the five keys, each
\* mapped to a string value, user-agent the fixed constant and
\* conversation-id the empty string.
C12_AllHeadersStrings ==
    Returned =>
        /\ ResultShape(last.result)
        /\ \A h \in HeaderNames : IsStringValue(HeadersOf(last.result)[h])

\* C12 amended: as stated, except that x-iflow-signature is a string (the
\* hex digest) only when the call selected a key, and is null when the call
\* selected none; the other four headers are strings in every result.
C12_HeaderSet ==
    Returned =>
        /\ ResultShape(last.result)
        /\ \A h \in HeaderNames \ {"x-iflow-signature"} :
               HeadersOf(last.result)[h].t = "string"
        /\ IF last.key = Undefined
           THEN Signature(last.result) = Null
           ELSE Signature(last.result).t = "hmac"

\* A result whose signature is null, returned with a non-empty pool.
C12_Witness ==
    /\ Returned
    /\ Signature(last.result) = Null
    /\ Len(apiKeys) > 0

(***************************************************************************)
(* generateSessionId called on its own.  Each character of the result      *)
(* depends on one draw only, so the draws range over the sequences that    *)
(* are constant but for one position, which takes every value 0..15.       *)
(***************************************************************************)
SessionRandomSources ==
    { [i \in 1..RandomDraws |-> IF i = p THEN v ELSE b] :
        b \in {0, 7, HexBase - 1}, p \in 1..RandomDraws, v \in 0..(HexBase - 1) }

\* One call per behaviour: the result depends on the draws alone.
SessionCall ==
    \E rnd \in SessionRandomSources :
        /\ session = NoCall
        /\ session' = [rnd |-> rnd, result |-> generateSessionId(rnd)]
        /\ UNCHANGED <<name, keyIndex, apiKeys, logger, last, hist, sigCall, pc, loc, running>>

NextSession == SessionCall

SpecSession == Init /\ [][NextSession]_vars

LowerHex == {HexDigits[i] : i \in 1..Len(HexDigits)}

HyphenPositions == {9, 14, 19, 24}

\* C13: session identifier format.  For every outcome of the random source
\* generateSessionId returns 36 characters, lowercase hex digits in the
\* 8-4-4-4-12 layout with hyphens at positions 9, 14, 19 and 24, the version
\* nibble (position 15) 4 and the variant nibble (position 20) one of
\* 8, 9, a, b.
C13_SessionIdFormat ==
    session # NoCall =>
        LET s == session.result
        IN  /\ Len(s) = 36
            /\ \A i \in 1..Len(s) :
                   IF i \in HyphenPositions THEN s[i] = "-" ELSE s[i] \in LowerHex
            /\ s[15] = "4"
            /\ s[20] \in {"8", "9", "a", "b"}

\* The draw for the variant nibble was 15 (binary 1111), and it came out b.
C13_Witness ==
    /\ session # NoCall
    /\ session.rnd[16] = 15
    /\ session.result[20] = "b"
    /\ session.result[1] = "0"

\* C14: single key.  When the pool holds exactly one key the cursor is 0
\* before and after every call and every call selects that key, also when
\* earlier calls were made while the pool was still empty.
C14_SingleKey ==
    /\ Len(apiKeys) = 1 => keyIndex = Num(0)
    /\ \A i \in 1..Len(hist) :
           hist[i].n = 1 =>
               /\ hist[i].pre = Num(0)
               /\ hist[i].key = Str(apiKeys[1])

\* C15: diagnostic trace.  With a logger present, the trace of a call
\* reports the index of the credential the call used (the pre-advance
\* cursor) and the first 8 characters of the key the call selected.
C15_TraceReportsUsedIndex ==
    (Called /\ last.trace # NoCall) =>
        /\ last.trace.index = last.pre
        /\ last.trace.keyPrefix = KeyPrefix(last.key)

\* C15 restricted to calls that selected a key of a pool of two or more
\* keys (the cursor is a number there): violated as well.
C15_UsedIndexInRotation ==
    (Called /\ last.trace # NoCall /\ LastSel.n >= 2 /\ last.key # Undefined) =>
        last.trace.index = last.pre

\* C16: recovery from late configuration.  Whenever the pool is non-empty
\* at selection time, also after calls made while provider.apiKey was absent
\* or empty, the selected credential is an element of the pool and the
\* returned x-iflow-signature is not null.
C16_LateConfiguration ==
    /\ \A i \in 1..Len(hist) :
           hist[i].n >= 1 =>
               hist[i].key \in { Str(apiKeys[k]) : k \in 1..Len(apiKeys) }
    /\ (Returned /\ LastSel.n >= 1) => Signature(last.result) # Null

=============================================================================
